---------------------------- MODULE Spec2Model ----------------------------
(***************************************************************************)
(* A model of scripts/ppt_cloner.py: the slide classifier, the plan        *)
(* resolver, the delete / re-index / substitute pipeline of create_simple  *)
(* and create_from_plan, and the text substitution of _apply_replacements. *)
(*                                                                         *)
(* Text is a sequence of one-character strings, so that substring search,  *)
(* str.replace, str.strip and str.lower are computed and not assumed.  A   *)
(* printable ASCII character, tab, line feed and carriage return are       *)
(* written as themselves; any other character is written by its code point *)
(* in upper-case hexadecimal, four digits or more ("U+5C01", "U+000B",     *)
(* "U+1E900"), and so is the grave accent ("U+0060").                      *)
(***************************************************************************)
EXTENDS Integers, Sequences, FiniteSets, TLC

VARIABLES
    path,               \* "create": main -> create_simple; "plan": create_from_plan
    pc,                 \* position of the run inside the entry point
    template,           \* the slides of the template file, in order
    analysis,           \* self.analysis, set by the constructor
    content_plan,       \* the plan: a sequence of entries
    slide_indices,      \* main / create_simple: resolved positions
    replacements_list,  \* main / create_simple: one dictionary per entry
    slides_to_keep,     \* create_from_plan: resolved {source_idx, replacements}
    prs,                \* the slides of the open presentation (prs.slides)
    to_delete,          \* to_delete / indices_to_delete
    del_queue,          \* what is left of sorted(to_delete, reverse=True)
    old_to_new,         \* the old -> new position dictionary
    cursor,             \* the entry the replacement loop is at (1-based)
    applied,            \* log of _apply_replacements calls: entry, slide hit
    output,             \* what prs.save wrote: <<>> or <<slides>>
    saves,              \* number of prs.save calls
    subst,              \* one call of _apply_replacements on its own
    classify            \* one call of _infer_slide_type on its own

vars == <<path, pc, template, analysis, content_plan, slide_indices, replacements_list,
          slides_to_keep, prs, to_delete, del_queue, old_to_new, cursor,
          applied, output, saves, subst, classify>>

pipeline_vars == <<path, pc, template, analysis, content_plan, slide_indices,
                   replacements_list, slides_to_keep, prs, to_delete,
                   del_queue, old_to_new, cursor, applied, output, saves>>

(***************************************************************************)
(* Bounds of the model.                                                    *)
(***************************************************************************)
MaxSlides == 3
MaxPlan == 3
MaxTexts == 5
MaxIdx == 1
MaxShapes == 2
MaxKeys == 2

(***************************************************************************)
(* Python str operations.                                                  *)
(***************************************************************************)
\* sep.join(parts)
RECURSIVE Join(_, _)
Join(parts, sep) ==
    IF parts = <<>> THEN <<>>
    ELSE IF Len(parts) = 1 THEN parts[1]
    ELSE parts[1] \o sep \o Join(Tail(parts), sep)

\* "".join(parts)
Concat(parts) == Join(parts, <<>>)

\* the printable ASCII characters, U+0020 to U+007E (the grave accent by
\* its code point)
AsciiChars == <<
    " ", "!", "\"", "#", "$", "%", "&", "'", "(", ")", "*", "+", ",", "-",
    ".", "/", "0", "1", "2", "3", "4", "5", "6", "7", "8", "9", ":", ";",
    "<", "=", ">", "?", "@", "A", "B", "C", "D", "E", "F", "G", "H", "I",
    "J", "K", "L", "M", "N", "O", "P", "Q", "R", "S", "T", "U", "V", "W",
    "X", "Y", "Z", "[", "\\", "]", "^", "_", "U+0060", "a", "b", "c", "d", "e",
    "f", "g", "h", "i", "j", "k", "l", "m", "n", "o", "p", "q", "r", "s",
    "t", "u", "v", "w", "x", "y", "z", "{", "|", "}", "~" >>

HexDigits == <<"0","1","2","3","4","5","6","7","8","9",
               "A","B","C","D","E","F">>

HexDigit(n, p) == HexDigits[((n \div p) % 16) + 1]

\* chr(n) as this module writes a character: a printable ASCII character
\* (but the grave accent), tab, line feed and carriage return as themselves,
\* any other by its code point
Chr(n) ==
    IF n = 9 THEN "\t"
    ELSE IF n = 10 THEN "\n"
    ELSE IF n = 13 THEN "\r"
    ELSE IF n \in 32..126 THEN AsciiChars[n - 31]
    ELSE LET low == HexDigit(n, 4096) \o HexDigit(n, 256)
                      \o HexDigit(n, 16) \o HexDigit(n, 1)
         IN  IF n < 65536 THEN "U+" \o low
             ELSE IF n < 1048576 THEN "U+" \o HexDigit(n, 65536) \o low
             ELSE "U+10" \o low

\* the characters of a set of code point ranges <<first, last>>
CharsOf(ranges) == UNION {{Chr(n) : n \in r[1]..r[2]} : r \in ranges}

\* str.isspace: the characters str.strip() removes
Whitespace == CharsOf({
    <<\h0009, \h000D>>, <<\h001C, \h0020>>, <<\h0085, \h0085>>,
    <<\h00A0, \h00A0>>, <<\h1680, \h1680>>, <<\h2000, \h200A>>,
    <<\h2028, \h2029>>, <<\h202F, \h202F>>, <<\h205F, \h205F>>,
    <<\h3000, \h3000>> })

\* the characters str.lower changes, as runs <<first, last, step, lower of
\* first>> of code points: every step-th code point from first to last is
\* lowered by the same offset (Unicode 14.0.0, the data of this Python)
LowerRuns == {
    <<\h0041, \h005A, 1, \h0061>>, <<\h00C0, \h00D6, 1, \h00E0>>,
    <<\h00D8, \h00DE, 1, \h00F8>>, <<\h0100, \h012E, 2, \h0101>>,
    <<\h0132, \h0136, 2, \h0133>>, <<\h0139, \h0147, 2, \h013A>>,
    <<\h014A, \h0176, 2, \h014B>>, <<\h0178, \h0178, 1, \h00FF>>,
    <<\h0179, \h017D, 2, \h017A>>, <<\h0181, \h0181, 1, \h0253>>,
    <<\h0182, \h0184, 2, \h0183>>, <<\h0186, \h0186, 1, \h0254>>,
    <<\h0187, \h0187, 1, \h0188>>, <<\h0189, \h018A, 1, \h0256>>,
    <<\h018B, \h018B, 1, \h018C>>, <<\h018E, \h018E, 1, \h01DD>>,
    <<\h018F, \h018F, 1, \h0259>>, <<\h0190, \h0190, 1, \h025B>>,
    <<\h0191, \h0191, 1, \h0192>>, <<\h0193, \h0193, 1, \h0260>>,
    <<\h0194, \h0194, 1, \h0263>>, <<\h0196, \h0196, 1, \h0269>>,
    <<\h0197, \h0197, 1, \h0268>>, <<\h0198, \h0198, 1, \h0199>>,
    <<\h019C, \h019C, 1, \h026F>>, <<\h019D, \h019D, 1, \h0272>>,
    <<\h019F, \h019F, 1, \h0275>>, <<\h01A0, \h01A4, 2, \h01A1>>,
    <<\h01A6, \h01A6, 1, \h0280>>, <<\h01A7, \h01A7, 1, \h01A8>>,
    <<\h01A9, \h01A9, 1, \h0283>>, <<\h01AC, \h01AC, 1, \h01AD>>,
    <<\h01AE, \h01AE, 1, \h0288>>, <<\h01AF, \h01AF, 1, \h01B0>>,
    <<\h01B1, \h01B2, 1, \h028A>>, <<\h01B3, \h01B5, 2, \h01B4>>,
    <<\h01B7, \h01B7, 1, \h0292>>, <<\h01B8, \h01B8, 1, \h01B9>>,
    <<\h01BC, \h01BC, 1, \h01BD>>, <<\h01C4, \h01C4, 1, \h01C6>>,
    <<\h01C5, \h01C5, 1, \h01C6>>, <<\h01C7, \h01C7, 1, \h01C9>>,
    <<\h01C8, \h01C8, 1, \h01C9>>, <<\h01CA, \h01CA, 1, \h01CC>>,
    <<\h01CB, \h01DB, 2, \h01CC>>, <<\h01DE, \h01EE, 2, \h01DF>>,
    <<\h01F1, \h01F1, 1, \h01F3>>, <<\h01F2, \h01F4, 2, \h01F3>>,
    <<\h01F6, \h01F6, 1, \h0195>>, <<\h01F7, \h01F7, 1, \h01BF>>,
    <<\h01F8, \h021E, 2, \h01F9>>, <<\h0220, \h0220, 1, \h019E>>,
    <<\h0222, \h0232, 2, \h0223>>, <<\h023A, \h023A, 1, \h2C65>>,
    <<\h023B, \h023B, 1, \h023C>>, <<\h023D, \h023D, 1, \h019A>>,
    <<\h023E, \h023E, 1, \h2C66>>, <<\h0241, \h0241, 1, \h0242>>,
    <<\h0243, \h0243, 1, \h0180>>, <<\h0244, \h0244, 1, \h0289>>,
    <<\h0245, \h0245, 1, \h028C>>, <<\h0246, \h024E, 2, \h0247>>,
    <<\h0370, \h0372, 2, \h0371>>, <<\h0376, \h0376, 1, \h0377>>,
    <<\h037F, \h037F, 1, \h03F3>>, <<\h0386, \h0386, 1, \h03AC>>,
    <<\h0388, \h038A, 1, \h03AD>>, <<\h038C, \h038C, 1, \h03CC>>,
    <<\h038E, \h038F, 1, \h03CD>>, <<\h0391, \h03A1, 1, \h03B1>>,
    <<\h03A3, \h03AB, 1, \h03C3>>, <<\h03CF, \h03CF, 1, \h03D7>>,
    <<\h03D8, \h03EE, 2, \h03D9>>, <<\h03F4, \h03F4, 1, \h03B8>>,
    <<\h03F7, \h03F7, 1, \h03F8>>, <<\h03F9, \h03F9, 1, \h03F2>>,
    <<\h03FA, \h03FA, 1, \h03FB>>, <<\h03FD, \h03FF, 1, \h037B>>,
    <<\h0400, \h040F, 1, \h0450>>, <<\h0410, \h042F, 1, \h0430>>,
    <<\h0460, \h0480, 2, \h0461>>, <<\h048A, \h04BE, 2, \h048B>>,
    <<\h04C0, \h04C0, 1, \h04CF>>, <<\h04C1, \h04CD, 2, \h04C2>>,
    <<\h04D0, \h052E, 2, \h04D1>>, <<\h0531, \h0556, 1, \h0561>>,
    <<\h10A0, \h10C5, 1, \h2D00>>, <<\h10C7, \h10C7, 1, \h2D27>>,
    <<\h10CD, \h10CD, 1, \h2D2D>>, <<\h13A0, \h13EF, 1, \hAB70>>,
    <<\h13F0, \h13F5, 1, \h13F8>>, <<\h1C90, \h1CBA, 1, \h10D0>>,
    <<\h1CBD, \h1CBF, 1, \h10FD>>, <<\h1E00, \h1E94, 2, \h1E01>>,
    <<\h1E9E, \h1E9E, 1, \h00DF>>, <<\h1EA0, \h1EFE, 2, \h1EA1>>,
    <<\h1F08, \h1F0F, 1, \h1F00>>, <<\h1F18, \h1F1D, 1, \h1F10>>,
    <<\h1F28, \h1F2F, 1, \h1F20>>, <<\h1F38, \h1F3F, 1, \h1F30>>,
    <<\h1F48, \h1F4D, 1, \h1F40>>, <<\h1F59, \h1F5F, 2, \h1F51>>,
    <<\h1F68, \h1F6F, 1, \h1F60>>, <<\h1F88, \h1F8F, 1, \h1F80>>,
    <<\h1F98, \h1F9F, 1, \h1F90>>, <<\h1FA8, \h1FAF, 1, \h1FA0>>,
    <<\h1FB8, \h1FB9, 1, \h1FB0>>, <<\h1FBA, \h1FBB, 1, \h1F70>>,
    <<\h1FBC, \h1FBC, 1, \h1FB3>>, <<\h1FC8, \h1FCB, 1, \h1F72>>,
    <<\h1FCC, \h1FCC, 1, \h1FC3>>, <<\h1FD8, \h1FD9, 1, \h1FD0>>,
    <<\h1FDA, \h1FDB, 1, \h1F76>>, <<\h1FE8, \h1FE9, 1, \h1FE0>>,
    <<\h1FEA, \h1FEB, 1, \h1F7A>>, <<\h1FEC, \h1FEC, 1, \h1FE5>>,
    <<\h1FF8, \h1FF9, 1, \h1F78>>, <<\h1FFA, \h1FFB, 1, \h1F7C>>,
    <<\h1FFC, \h1FFC, 1, \h1FF3>>, <<\h2126, \h2126, 1, \h03C9>>,
    <<\h212A, \h212A, 1, \h006B>>, <<\h212B, \h212B, 1, \h00E5>>,
    <<\h2132, \h2132, 1, \h214E>>, <<\h2160, \h216F, 1, \h2170>>,
    <<\h2183, \h2183, 1, \h2184>>, <<\h24B6, \h24CF, 1, \h24D0>>,
    <<\h2C00, \h2C2F, 1, \h2C30>>, <<\h2C60, \h2C60, 1, \h2C61>>,
    <<\h2C62, \h2C62, 1, \h026B>>, <<\h2C63, \h2C63, 1, \h1D7D>>,
    <<\h2C64, \h2C64, 1, \h027D>>, <<\h2C67, \h2C6B, 2, \h2C68>>,
    <<\h2C6D, \h2C6D, 1, \h0251>>, <<\h2C6E, \h2C6E, 1, \h0271>>,
    <<\h2C6F, \h2C6F, 1, \h0250>>, <<\h2C70, \h2C70, 1, \h0252>>,
    <<\h2C72, \h2C72, 1, \h2C73>>, <<\h2C75, \h2C75, 1, \h2C76>>,
    <<\h2C7E, \h2C7F, 1, \h023F>>, <<\h2C80, \h2CE2, 2, \h2C81>>,
    <<\h2CEB, \h2CED, 2, \h2CEC>>, <<\h2CF2, \h2CF2, 1, \h2CF3>>,
    <<\hA640, \hA66C, 2, \hA641>>, <<\hA680, \hA69A, 2, \hA681>>,
    <<\hA722, \hA72E, 2, \hA723>>, <<\hA732, \hA76E, 2, \hA733>>,
    <<\hA779, \hA77B, 2, \hA77A>>, <<\hA77D, \hA77D, 1, \h1D79>>,
    <<\hA77E, \hA786, 2, \hA77F>>, <<\hA78B, \hA78B, 1, \hA78C>>,
    <<\hA78D, \hA78D, 1, \h0265>>, <<\hA790, \hA792, 2, \hA791>>,
    <<\hA796, \hA7A8, 2, \hA797>>, <<\hA7AA, \hA7AA, 1, \h0266>>,
    <<\hA7AB, \hA7AB, 1, \h025C>>, <<\hA7AC, \hA7AC, 1, \h0261>>,
    <<\hA7AD, \hA7AD, 1, \h026C>>, <<\hA7AE, \hA7AE, 1, \h026A>>,
    <<\hA7B0, \hA7B0, 1, \h029E>>, <<\hA7B1, \hA7B1, 1, \h0287>>,
    <<\hA7B2, \hA7B2, 1, \h029D>>, <<\hA7B3, \hA7B3, 1, \hAB53>>,
    <<\hA7B4, \hA7C2, 2, \hA7B5>>, <<\hA7C4, \hA7C4, 1, \hA794>>,
    <<\hA7C5, \hA7C5, 1, \h0282>>, <<\hA7C6, \hA7C6, 1, \h1D8E>>,
    <<\hA7C7, \hA7C9, 2, \hA7C8>>, <<\hA7D0, \hA7D0, 1, \hA7D1>>,
    <<\hA7D6, \hA7D8, 2, \hA7D7>>, <<\hA7F5, \hA7F5, 1, \hA7F6>>,
    <<\hFF21, \hFF3A, 1, \hFF41>>, <<\h10400, \h10427, 1, \h10428>>,
    <<\h104B0, \h104D3, 1, \h104D8>>, <<\h10570, \h1057A, 1, \h10597>>,
    <<\h1057C, \h1058A, 1, \h105A3>>, <<\h1058C, \h10592, 1, \h105B3>>,
    <<\h10594, \h10595, 1, \h105BB>>, <<\h10C80, \h10CB2, 1, \h10CC0>>,
    <<\h118A0, \h118BF, 1, \h118C0>>, <<\h16E40, \h16E5F, 1, \h16E60>>,
    <<\h1E900, \h1E921, 1, \h1E922>> }

\* U+0130 lowers to two characters
LowerSpecial == { <<Chr(\h0130), <<"i", Chr(\h0307)>> >> }

LowerPairs ==
    UNION {{<<Chr(n), <<Chr(n + r[4] - r[1])>> >> :
              n \in {m \in r[1]..r[2] : (m - r[1]) % r[3] = 0}} :
           r \in LowerRuns}
    \cup LowerSpecial

UpperChars == {p[1] : p \in LowerPairs}

\* the lower-case text of each character str.lower changes
LowerOf == [c \in UpperChars |-> (CHOOSE p \in LowerPairs : p[1] = c)[2]]

\* the case-ignorable characters (they are skipped around a capital sigma)
CaseIgnorable == CharsOf({
    <<\h0027, \h0027>>, <<\h002E, \h002E>>, <<\h003A, \h003A>>,
    <<\h005E, \h005E>>, <<\h0060, \h0060>>, <<\h00A8, \h00A8>>,
    <<\h00AD, \h00AD>>, <<\h00AF, \h00AF>>, <<\h00B4, \h00B4>>,
    <<\h00B7, \h00B8>>, <<\h02B0, \h036F>>, <<\h0374, \h0375>>,
    <<\h037A, \h037A>>, <<\h0384, \h0385>>, <<\h0387, \h0387>>,
    <<\h0483, \h0489>>, <<\h0559, \h0559>>, <<\h055F, \h055F>>,
    <<\h0591, \h05BD>>, <<\h05BF, \h05BF>>, <<\h05C1, \h05C2>>,
    <<\h05C4, \h05C5>>, <<\h05C7, \h05C7>>, <<\h05F4, \h05F4>>,
    <<\h0600, \h0605>>, <<\h0610, \h061A>>, <<\h061C, \h061C>>,
    <<\h0640, \h0640>>, <<\h064B, \h065F>>, <<\h0670, \h0670>>,
    <<\h06D6, \h06DD>>, <<\h06DF, \h06E8>>, <<\h06EA, \h06ED>>,
    <<\h070F, \h070F>>, <<\h0711, \h0711>>, <<\h0730, \h074A>>,
    <<\h07A6, \h07B0>>, <<\h07EB, \h07F5>>, <<\h07FA, \h07FA>>,
    <<\h07FD, \h07FD>>, <<\h0816, \h082D>>, <<\h0859, \h085B>>,
    <<\h0888, \h0888>>, <<\h0890, \h0891>>, <<\h0898, \h089F>>,
    <<\h08C9, \h0902>>, <<\h093A, \h093A>>, <<\h093C, \h093C>>,
    <<\h0941, \h0948>>, <<\h094D, \h094D>>, <<\h0951, \h0957>>,
    <<\h0962, \h0963>>, <<\h0971, \h0971>>, <<\h0981, \h0981>>,
    <<\h09BC, \h09BC>>, <<\h09C1, \h09C4>>, <<\h09CD, \h09CD>>,
    <<\h09E2, \h09E3>>, <<\h09FE, \h09FE>>, <<\h0A01, \h0A02>>,
    <<\h0A3C, \h0A3C>>, <<\h0A41, \h0A42>>, <<\h0A47, \h0A48>>,
    <<\h0A4B, \h0A4D>>, <<\h0A51, \h0A51>>, <<\h0A70, \h0A71>>,
    <<\h0A75, \h0A75>>, <<\h0A81, \h0A82>>, <<\h0ABC, \h0ABC>>,
    <<\h0AC1, \h0AC5>>, <<\h0AC7, \h0AC8>>, <<\h0ACD, \h0ACD>>,
    <<\h0AE2, \h0AE3>>, <<\h0AFA, \h0AFF>>, <<\h0B01, \h0B01>>,
    <<\h0B3C, \h0B3C>>, <<\h0B3F, \h0B3F>>, <<\h0B41, \h0B44>>,
    <<\h0B4D, \h0B4D>>, <<\h0B55, \h0B56>>, <<\h0B62, \h0B63>>,
    <<\h0B82, \h0B82>>, <<\h0BC0, \h0BC0>>, <<\h0BCD, \h0BCD>>,
    <<\h0C00, \h0C00>>, <<\h0C04, \h0C04>>, <<\h0C3C, \h0C3C>>,
    <<\h0C3E, \h0C40>>, <<\h0C46, \h0C48>>, <<\h0C4A, \h0C4D>>,
    <<\h0C55, \h0C56>>, <<\h0C62, \h0C63>>, <<\h0C81, \h0C81>>,
    <<\h0CBC, \h0CBC>>, <<\h0CBF, \h0CBF>>, <<\h0CC6, \h0CC6>>,
    <<\h0CCC, \h0CCD>>, <<\h0CE2, \h0CE3>>, <<\h0D00, \h0D01>>,
    <<\h0D3B, \h0D3C>>, <<\h0D41, \h0D44>>, <<\h0D4D, \h0D4D>>,
    <<\h0D62, \h0D63>>, <<\h0D81, \h0D81>>, <<\h0DCA, \h0DCA>>,
    <<\h0DD2, \h0DD4>>, <<\h0DD6, \h0DD6>>, <<\h0E31, \h0E31>>,
    <<\h0E34, \h0E3A>>, <<\h0E46, \h0E4E>>, <<\h0EB1, \h0EB1>>,
    <<\h0EB4, \h0EBC>>, <<\h0EC6, \h0EC6>>, <<\h0EC8, \h0ECD>>,
    <<\h0F18, \h0F19>>, <<\h0F35, \h0F35>>, <<\h0F37, \h0F37>>,
    <<\h0F39, \h0F39>>, <<\h0F71, \h0F7E>>, <<\h0F80, \h0F84>>,
    <<\h0F86, \h0F87>>, <<\h0F8D, \h0F97>>, <<\h0F99, \h0FBC>>,
    <<\h0FC6, \h0FC6>>, <<\h102D, \h1030>>, <<\h1032, \h1037>>,
    <<\h1039, \h103A>>, <<\h103D, \h103E>>, <<\h1058, \h1059>>,
    <<\h105E, \h1060>>, <<\h1071, \h1074>>, <<\h1082, \h1082>>,
    <<\h1085, \h1086>>, <<\h108D, \h108D>>, <<\h109D, \h109D>>,
    <<\h10FC, \h10FC>>, <<\h135D, \h135F>>, <<\h1712, \h1714>>,
    <<\h1732, \h1733>>, <<\h1752, \h1753>>, <<\h1772, \h1773>>,
    <<\h17B4, \h17B5>>, <<\h17B7, \h17BD>>, <<\h17C6, \h17C6>>,
    <<\h17C9, \h17D3>>, <<\h17D7, \h17D7>>, <<\h17DD, \h17DD>>,
    <<\h180B, \h180F>>, <<\h1843, \h1843>>, <<\h1885, \h1886>>,
    <<\h18A9, \h18A9>>, <<\h1920, \h1922>>, <<\h1927, \h1928>>,
    <<\h1932, \h1932>>, <<\h1939, \h193B>>, <<\h1A17, \h1A18>>,
    <<\h1A1B, \h1A1B>>, <<\h1A56, \h1A56>>, <<\h1A58, \h1A5E>>,
    <<\h1A60, \h1A60>>, <<\h1A62, \h1A62>>, <<\h1A65, \h1A6C>>,
    <<\h1A73, \h1A7C>>, <<\h1A7F, \h1A7F>>, <<\h1AA7, \h1AA7>>,
    <<\h1AB0, \h1ACE>>, <<\h1B00, \h1B03>>, <<\h1B34, \h1B34>>,
    <<\h1B36, \h1B3A>>, <<\h1B3C, \h1B3C>>, <<\h1B42, \h1B42>>,
    <<\h1B6B, \h1B73>>, <<\h1B80, \h1B81>>, <<\h1BA2, \h1BA5>>,
    <<\h1BA8, \h1BA9>>, <<\h1BAB, \h1BAD>>, <<\h1BE6, \h1BE6>>,
    <<\h1BE8, \h1BE9>>, <<\h1BED, \h1BED>>, <<\h1BEF, \h1BF1>>,
    <<\h1C2C, \h1C33>>, <<\h1C36, \h1C37>>, <<\h1C78, \h1C7D>>,
    <<\h1CD0, \h1CD2>>, <<\h1CD4, \h1CE0>>, <<\h1CE2, \h1CE8>>,
    <<\h1CED, \h1CED>>, <<\h1CF4, \h1CF4>>, <<\h1CF8, \h1CF9>>,
    <<\h1D2C, \h1D6A>>, <<\h1D78, \h1D78>>, <<\h1D9B, \h1DFF>>,
    <<\h1FBD, \h1FBD>>, <<\h1FBF, \h1FC1>>, <<\h1FCD, \h1FCF>>,
    <<\h1FDD, \h1FDF>>, <<\h1FED, \h1FEF>>, <<\h1FFD, \h1FFE>>,
    <<\h200B, \h200F>>, <<\h2018, \h2019>>, <<\h2024, \h2024>>,
    <<\h2027, \h2027>>, <<\h202A, \h202E>>, <<\h2060, \h2064>>,
    <<\h2066, \h206F>>, <<\h2071, \h2071>>, <<\h207F, \h207F>>,
    <<\h2090, \h209C>>, <<\h20D0, \h20F0>>, <<\h2C7C, \h2C7D>>,
    <<\h2CEF, \h2CF1>>, <<\h2D6F, \h2D6F>>, <<\h2D7F, \h2D7F>>,
    <<\h2DE0, \h2DFF>>, <<\h2E2F, \h2E2F>>, <<\h3005, \h3005>>,
    <<\h302A, \h302D>>, <<\h3031, \h3035>>, <<\h303B, \h303B>>,
    <<\h3099, \h309E>>, <<\h30FC, \h30FE>>, <<\hA015, \hA015>>,
    <<\hA4F8, \hA4FD>>, <<\hA60C, \hA60C>>, <<\hA66F, \hA672>>,
    <<\hA674, \hA67D>>, <<\hA67F, \hA67F>>, <<\hA69C, \hA69F>>,
    <<\hA6F0, \hA6F1>>, <<\hA700, \hA721>>, <<\hA770, \hA770>>,
    <<\hA788, \hA78A>>, <<\hA7F2, \hA7F4>>, <<\hA7F8, \hA7F9>>,
    <<\hA802, \hA802>>, <<\hA806, \hA806>>, <<\hA80B, \hA80B>>,
    <<\hA825, \hA826>>, <<\hA82C, \hA82C>>, <<\hA8C4, \hA8C5>>,
    <<\hA8E0, \hA8F1>>, <<\hA8FF, \hA8FF>>, <<\hA926, \hA92D>>,
    <<\hA947, \hA951>>, <<\hA980, \hA982>>, <<\hA9B3, \hA9B3>>,
    <<\hA9B6, \hA9B9>>, <<\hA9BC, \hA9BD>>, <<\hA9CF, \hA9CF>>,
    <<\hA9E5, \hA9E6>>, <<\hAA29, \hAA2E>>, <<\hAA31, \hAA32>>,
    <<\hAA35, \hAA36>>, <<\hAA43, \hAA43>>, <<\hAA4C, \hAA4C>>,
    <<\hAA70, \hAA70>>, <<\hAA7C, \hAA7C>>, <<\hAAB0, \hAAB0>>,
    <<\hAAB2, \hAAB4>>, <<\hAAB7, \hAAB8>>, <<\hAABE, \hAABF>>,
    <<\hAAC1, \hAAC1>>, <<\hAADD, \hAADD>>, <<\hAAEC, \hAAED>>,
    <<\hAAF3, \hAAF4>>, <<\hAAF6, \hAAF6>>, <<\hAB5B, \hAB5F>>,
    <<\hAB69, \hAB6B>>, <<\hABE5, \hABE5>>, <<\hABE8, \hABE8>>,
    <<\hABED, \hABED>>, <<\hFB1E, \hFB1E>>, <<\hFBB2, \hFBC2>>,
    <<\hFE00, \hFE0F>>, <<\hFE13, \hFE13>>, <<\hFE20, \hFE2F>>,
    <<\hFE52, \hFE52>>, <<\hFE55, \hFE55>>, <<\hFEFF, \hFEFF>>,
    <<\hFF07, \hFF07>>, <<\hFF0E, \hFF0E>>, <<\hFF1A, \hFF1A>>,
    <<\hFF3E, \hFF3E>>, <<\hFF40, \hFF40>>, <<\hFF70, \hFF70>>,
    <<\hFF9E, \hFF9F>>, <<\hFFE3, \hFFE3>>, <<\hFFF9, \hFFFB>>,
    <<\h101FD, \h101FD>>, <<\h102E0, \h102E0>>, <<\h10376, \h1037A>>,
    <<\h10780, \h10785>>, <<\h10787, \h107B0>>, <<\h107B2, \h107BA>>,
    <<\h10A01, \h10A03>>, <<\h10A05, \h10A06>>, <<\h10A0C, \h10A0F>>,
    <<\h10A38, \h10A3A>>, <<\h10A3F, \h10A3F>>, <<\h10AE5, \h10AE6>>,
    <<\h10D24, \h10D27>>, <<\h10EAB, \h10EAC>>, <<\h10F46, \h10F50>>,
    <<\h10F82, \h10F85>>, <<\h11001, \h11001>>, <<\h11038, \h11046>>,
    <<\h11070, \h11070>>, <<\h11073, \h11074>>, <<\h1107F, \h11081>>,
    <<\h110B3, \h110B6>>, <<\h110B9, \h110BA>>, <<\h110BD, \h110BD>>,
    <<\h110C2, \h110C2>>, <<\h110CD, \h110CD>>, <<\h11100, \h11102>>,
    <<\h11127, \h1112B>>, <<\h1112D, \h11134>>, <<\h11173, \h11173>>,
    <<\h11180, \h11181>>, <<\h111B6, \h111BE>>, <<\h111C9, \h111CC>>,
    <<\h111CF, \h111CF>>, <<\h1122F, \h11231>>, <<\h11234, \h11234>>,
    <<\h11236, \h11237>>, <<\h1123E, \h1123E>>, <<\h112DF, \h112DF>>,
    <<\h112E3, \h112EA>>, <<\h11300, \h11301>>, <<\h1133B, \h1133C>>,
    <<\h11340, \h11340>>, <<\h11366, \h1136C>>, <<\h11370, \h11374>>,
    <<\h11438, \h1143F>>, <<\h11442, \h11444>>, <<\h11446, \h11446>>,
    <<\h1145E, \h1145E>>, <<\h114B3, \h114B8>>, <<\h114BA, \h114BA>>,
    <<\h114BF, \h114C0>>, <<\h114C2, \h114C3>>, <<\h115B2, \h115B5>>,
    <<\h115BC, \h115BD>>, <<\h115BF, \h115C0>>, <<\h115DC, \h115DD>>,
    <<\h11633, \h1163A>>, <<\h1163D, \h1163D>>, <<\h1163F, \h11640>>,
    <<\h116AB, \h116AB>>, <<\h116AD, \h116AD>>, <<\h116B0, \h116B5>>,
    <<\h116B7, \h116B7>>, <<\h1171D, \h1171F>>, <<\h11722, \h11725>>,
    <<\h11727, \h1172B>>, <<\h1182F, \h11837>>, <<\h11839, \h1183A>>,
    <<\h1193B, \h1193C>>, <<\h1193E, \h1193E>>, <<\h11943, \h11943>>,
    <<\h119D4, \h119D7>>, <<\h119DA, \h119DB>>, <<\h119E0, \h119E0>>,
    <<\h11A01, \h11A0A>>, <<\h11A33, \h11A38>>, <<\h11A3B, \h11A3E>>,
    <<\h11A47, \h11A47>>, <<\h11A51, \h11A56>>, <<\h11A59, \h11A5B>>,
    <<\h11A8A, \h11A96>>, <<\h11A98, \h11A99>>, <<\h11C30, \h11C36>>,
    <<\h11C38, \h11C3D>>, <<\h11C3F, \h11C3F>>, <<\h11C92, \h11CA7>>,
    <<\h11CAA, \h11CB0>>, <<\h11CB2, \h11CB3>>, <<\h11CB5, \h11CB6>>,
    <<\h11D31, \h11D36>>, <<\h11D3A, \h11D3A>>, <<\h11D3C, \h11D3D>>,
    <<\h11D3F, \h11D45>>, <<\h11D47, \h11D47>>, <<\h11D90, \h11D91>>,
    <<\h11D95, \h11D95>>, <<\h11D97, \h11D97>>, <<\h11EF3, \h11EF4>>,
    <<\h13430, \h13438>>, <<\h16AF0, \h16AF4>>, <<\h16B30, \h16B36>>,
    <<\h16B40, \h16B43>>, <<\h16F4F, \h16F4F>>, <<\h16F8F, \h16F9F>>,
    <<\h16FE0, \h16FE1>>, <<\h16FE3, \h16FE4>>, <<\h1AFF0, \h1AFF3>>,
    <<\h1AFF5, \h1AFFB>>, <<\h1AFFD, \h1AFFE>>, <<\h1BC9D, \h1BC9E>>,
    <<\h1BCA0, \h1BCA3>>, <<\h1CF00, \h1CF2D>>, <<\h1CF30, \h1CF46>>,
    <<\h1D167, \h1D169>>, <<\h1D173, \h1D182>>, <<\h1D185, \h1D18B>>,
    <<\h1D1AA, \h1D1AD>>, <<\h1D242, \h1D244>>, <<\h1DA00, \h1DA36>>,
    <<\h1DA3B, \h1DA6C>>, <<\h1DA75, \h1DA75>>, <<\h1DA84, \h1DA84>>,
    <<\h1DA9B, \h1DA9F>>, <<\h1DAA1, \h1DAAF>>, <<\h1E000, \h1E006>>,
    <<\h1E008, \h1E018>>, <<\h1E01B, \h1E021>>, <<\h1E023, \h1E024>>,
    <<\h1E026, \h1E02A>>, <<\h1E130, \h1E13D>>, <<\h1E2AE, \h1E2AE>>,
    <<\h1E2EC, \h1E2EF>>, <<\h1E8D0, \h1E8D6>>, <<\h1E944, \h1E94B>>,
    <<\h1F3FB, \h1F3FF>>, <<\hE0001, \hE0001>>, <<\hE0020, \hE007F>>,
    <<\hE0100, \hE01EF>> })

\* the cased characters that are not case-ignorable
CasedLetters == CharsOf({
    <<\h0041, \h005A>>, <<\h0061, \h007A>>, <<\h00AA, \h00AA>>,
    <<\h00B5, \h00B5>>, <<\h00BA, \h00BA>>, <<\h00C0, \h00D6>>,
    <<\h00D8, \h00F6>>, <<\h00F8, \h01BA>>, <<\h01BC, \h01BF>>,
    <<\h01C4, \h0293>>, <<\h0295, \h02AF>>, <<\h0370, \h0373>>,
    <<\h0376, \h0377>>, <<\h037B, \h037D>>, <<\h037F, \h037F>>,
    <<\h0386, \h0386>>, <<\h0388, \h038A>>, <<\h038C, \h038C>>,
    <<\h038E, \h03A1>>, <<\h03A3, \h03F5>>, <<\h03F7, \h0481>>,
    <<\h048A, \h052F>>, <<\h0531, \h0556>>, <<\h0560, \h0588>>,
    <<\h10A0, \h10C5>>, <<\h10C7, \h10C7>>, <<\h10CD, \h10CD>>,
    <<\h10D0, \h10FA>>, <<\h10FD, \h10FF>>, <<\h13A0, \h13F5>>,
    <<\h13F8, \h13FD>>, <<\h1C80, \h1C88>>, <<\h1C90, \h1CBA>>,
    <<\h1CBD, \h1CBF>>, <<\h1D00, \h1D2B>>, <<\h1D6B, \h1D77>>,
    <<\h1D79, \h1D9A>>, <<\h1E00, \h1F15>>, <<\h1F18, \h1F1D>>,
    <<\h1F20, \h1F45>>, <<\h1F48, \h1F4D>>, <<\h1F50, \h1F57>>,
    <<\h1F59, \h1F59>>, <<\h1F5B, \h1F5B>>, <<\h1F5D, \h1F5D>>,
    <<\h1F5F, \h1F7D>>, <<\h1F80, \h1FB4>>, <<\h1FB6, \h1FBC>>,
    <<\h1FBE, \h1FBE>>, <<\h1FC2, \h1FC4>>, <<\h1FC6, \h1FCC>>,
    <<\h1FD0, \h1FD3>>, <<\h1FD6, \h1FDB>>, <<\h1FE0, \h1FEC>>,
    <<\h1FF2, \h1FF4>>, <<\h1FF6, \h1FFC>>, <<\h2102, \h2102>>,
    <<\h2107, \h2107>>, <<\h210A, \h2113>>, <<\h2115, \h2115>>,
    <<\h2119, \h211D>>, <<\h2124, \h2124>>, <<\h2126, \h2126>>,
    <<\h2128, \h2128>>, <<\h212A, \h212D>>, <<\h212F, \h2134>>,
    <<\h2139, \h2139>>, <<\h213C, \h213F>>, <<\h2145, \h2149>>,
    <<\h214E, \h214E>>, <<\h2160, \h217F>>, <<\h2183, \h2184>>,
    <<\h24B6, \h24E9>>, <<\h2C00, \h2C7B>>, <<\h2C7E, \h2CE4>>,
    <<\h2CEB, \h2CEE>>, <<\h2CF2, \h2CF3>>, <<\h2D00, \h2D25>>,
    <<\h2D27, \h2D27>>, <<\h2D2D, \h2D2D>>, <<\hA640, \hA66D>>,
    <<\hA680, \hA69B>>, <<\hA722, \hA76F>>, <<\hA771, \hA787>>,
    <<\hA78B, \hA78E>>, <<\hA790, \hA7CA>>, <<\hA7D0, \hA7D1>>,
    <<\hA7D3, \hA7D3>>, <<\hA7D5, \hA7D9>>, <<\hA7F5, \hA7F6>>,
    <<\hA7FA, \hA7FA>>, <<\hAB30, \hAB5A>>, <<\hAB60, \hAB68>>,
    <<\hAB70, \hABBF>>, <<\hFB00, \hFB06>>, <<\hFB13, \hFB17>>,
    <<\hFF21, \hFF3A>>, <<\hFF41, \hFF5A>>, <<\h10400, \h1044F>>,
    <<\h104B0, \h104D3>>, <<\h104D8, \h104FB>>, <<\h10570, \h1057A>>,
    <<\h1057C, \h1058A>>, <<\h1058C, \h10592>>, <<\h10594, \h10595>>,
    <<\h10597, \h105A1>>, <<\h105A3, \h105B1>>, <<\h105B3, \h105B9>>,
    <<\h105BB, \h105BC>>, <<\h10C80, \h10CB2>>, <<\h10CC0, \h10CF2>>,
    <<\h118A0, \h118DF>>, <<\h16E40, \h16E7F>>, <<\h1D400, \h1D454>>,
    <<\h1D456, \h1D49C>>, <<\h1D49E, \h1D49F>>, <<\h1D4A2, \h1D4A2>>,
    <<\h1D4A5, \h1D4A6>>, <<\h1D4A9, \h1D4AC>>, <<\h1D4AE, \h1D4B9>>,
    <<\h1D4BB, \h1D4BB>>, <<\h1D4BD, \h1D4C3>>, <<\h1D4C5, \h1D505>>,
    <<\h1D507, \h1D50A>>, <<\h1D50D, \h1D514>>, <<\h1D516, \h1D51C>>,
    <<\h1D51E, \h1D539>>, <<\h1D53B, \h1D53E>>, <<\h1D540, \h1D544>>,
    <<\h1D546, \h1D546>>, <<\h1D54A, \h1D550>>, <<\h1D552, \h1D6A5>>,
    <<\h1D6A8, \h1D6C0>>, <<\h1D6C2, \h1D6DA>>, <<\h1D6DC, \h1D6FA>>,
    <<\h1D6FC, \h1D714>>, <<\h1D716, \h1D734>>, <<\h1D736, \h1D74E>>,
    <<\h1D750, \h1D76E>>, <<\h1D770, \h1D788>>, <<\h1D78A, \h1D7A8>>,
    <<\h1D7AA, \h1D7C2>>, <<\h1D7C4, \h1D7CB>>, <<\h1DF00, \h1DF09>>,
    <<\h1DF0B, \h1DF1E>>, <<\h1E900, \h1E943>>, <<\h1F130, \h1F149>>,
    <<\h1F150, \h1F169>>, <<\h1F170, \h1F189>> })

CapitalSigma == Chr(\h03A3)

\* U+03A3 at place k of s is in the Final_Sigma context: the nearest
\* character before it that is not case-ignorable is cased, and the nearest
\* one after it, if any, is not
FinalSigma(s, k) ==
    LET before == {j \in 1..(k - 1) : s[j] \notin CaseIgnorable}
        after == {j \in (k + 1)..Len(s) : s[j] \notin CaseIgnorable}
    IN  /\ before # {}
        /\ s[CHOOSE j \in before : \A i \in before : i <= j] \in CasedLetters
        /\ \/ after = {}
           \/ s[CHOOSE j \in after : \A i \in after : j <= i] \notin CasedLetters

\* str.lower, one character out of context
LowerChar(c) == IF c \in UpperChars THEN LowerOf[c] ELSE <<c>>

\* str.lower, the character at place k of s
LowerAt(s, k) ==
    IF s[k] = CapitalSigma
    THEN (IF FinalSigma(s, k) THEN <<Chr(\h03C2)>> ELSE <<Chr(\h03C3)>>)
    ELSE LowerChar(s[k])

\* str.lower
Lower(s) == Concat([k \in 1..Len(s) |-> LowerAt(s, k)])

\* str.strip
Strip(s) ==
    LET keep == {k \in 1..Len(s) : s[k] \notin Whitespace}
    IN  IF keep = {} THEN <<>>
        ELSE SubSeq(s, CHOOSE a \in keep : \A b \in keep : a <= b,
                       CHOOSE a \in keep : \A b \in keep : a >= b)

\* k occurs in s starting at position p (1-based)
OccursAt(s, k, p) ==
    /\ p >= 1
    /\ p + Len(k) - 1 <= Len(s)
    /\ SubSeq(s, p, p + Len(k) - 1) = k

\* k in s
Contains(s, k) == \E p \in 1..(Len(s) + 1) : OccursAt(s, k, p)

\* s.startswith(k)
StartsWith(s, k) == OccursAt(s, k, 1)

\* s.replace(old, new): every non-overlapping occurrence, left to right; an
\* empty old matches before every character and at the end.
RECURSIVE ReplaceFrom(_, _, _, _)
ReplaceFrom(s, old, new, p) ==
    IF p > Len(s) THEN (IF old = <<>> THEN new ELSE <<>>)
    ELSE IF old = <<>> THEN new \o <<s[p]>> \o ReplaceFrom(s, old, new, p + 1)
    ELSE IF OccursAt(s, old, p) THEN new \o ReplaceFrom(s, old, new, p + Len(old))
    ELSE <<s[p]>> \o ReplaceFrom(s, old, new, p + 1)

Replace(s, old, new) == ReplaceFrom(s, old, new, 1)

(***************************************************************************)
(* The slide classifier, _infer_slide_type.                                *)
(***************************************************************************)
CoverLayoutKeys == << <<"t","i","t","l","e">>, <<"c","o","v","e","r">>,
                      <<"U+5C01","U+9762">> >>
SectionLayoutKeys == << <<"s","e","c","t","i","o","n">>,
                        <<"d","i","v","i","d","e","r">>,
                        <<"U+7AE0","U+8282">> >>
TocTextKeys == << <<"U+76EE","U+5F55">>,
                  <<"c","o","n","t","e","n","t","s">>,
                  <<"a","g","e","n","d","a">> >>
EndingTextKeys == << <<"U+8C22","U+8C22">>, <<"t","h","a","n","k">>,
                     <<"U+611F","U+8C22">>, <<"U+8046","U+542C">> >>

\* any(k in s for k in keys)
AnyKeyIn(keys, s) == \E k \in 1..Len(keys) : Contains(s, keys[k])

\* the character class [0-9０-９]
DigitChars == {"0","1","2","3","4","5","6","7","8","9",
               "U+FF10","U+FF11","U+FF12","U+FF13","U+FF14",
               "U+FF15","U+FF16","U+FF17","U+FF18","U+FF19"}

\* re.match(r'^[0-9０-９]+$', text): $ also matches before one final newline
MatchesNumeric(text) ==
    LET core == IF Len(text) > 0 /\ text[Len(text)] = "\n"
                THEN SubSeq(text, 1, Len(text) - 1) ELSE text
    IN  Len(core) > 0 /\ \A k \in 1..Len(core) : core[k] \in DigitChars

NumberedTokens == { <<"0","1">>, <<"0","2">>, <<"0","3">>, <<"0","4">>,
                    <<"0","5">> }

DividerMaxTexts == 4

\* the classifier with the text keywords looked at before the layout name
infer_slide_type_swapped(info, idx, total) ==
    LET layout_lower == Lower(info.layout_name)
        all_text == Join([k \in 1..Len(info.text_elements) |->
                            Lower(info.text_elements[k].text)], <<" ">>)
    IN  IF idx = 0 THEN "cover"
        ELSE IF AnyKeyIn(TocTextKeys, all_text) THEN "toc"
        ELSE IF AnyKeyIn(EndingTextKeys, all_text) THEN "ending"
        ELSE IF AnyKeyIn(CoverLayoutKeys, layout_lower) THEN "cover"
        ELSE IF AnyKeyIn(SectionLayoutKeys, layout_lower) THEN "divider"
        ELSE IF /\ Len(info.text_elements) <= DividerMaxTexts
                /\ \E k \in 1..Len(info.text_elements) :
                      LET text == Strip(info.text_elements[k].text)
                      IN  MatchesNumeric(text) \/ text \in NumberedTokens
             THEN "divider"
        ELSE "content"

\* _infer_slide_type, lines 103-127
infer_slide_type(info, idx, total) ==
    LET layout_lower == Lower(info.layout_name)
        all_text == Join([k \in 1..Len(info.text_elements) |->
                            Lower(info.text_elements[k].text)], <<" ">>)
    IN  IF idx = 0 THEN "cover"
        ELSE IF AnyKeyIn(CoverLayoutKeys, layout_lower) THEN "cover"
        ELSE IF AnyKeyIn(SectionLayoutKeys, layout_lower) THEN "divider"
        ELSE IF AnyKeyIn(TocTextKeys, all_text) THEN "toc"
        ELSE IF AnyKeyIn(EndingTextKeys, all_text) THEN "ending"
        ELSE IF /\ Len(info.text_elements) <= DividerMaxTexts
                /\ \E k \in 1..Len(info.text_elements) :
                      LET text == Strip(info.text_elements[k].text)
                      IN  MatchesNumeric(text) \/ text \in NumberedTokens
             THEN "divider"
        ELSE "content"


(***************************************************************************)
(* Shapes and _apply_replacements.  A shape is its name, whether it has a  *)
(* text frame, and its paragraphs, each a sequence of run texts.  A        *)
(* replacement dictionary is the sequence of its <<key, value>> items in   *)
(* iteration order, keys distinct.                                         *)
(***************************************************************************)
ShapePrefix == <<"s","h","a","p","e",":">>

\* key in d
DictHas(d, key) == \E j \in 1..Len(d) : d[j][1] = key

\* d[key]
DictGet(d, key) == d[CHOOSE j \in 1..Len(d) : d[j][1] = key][2]

\* shape.text_frame.text: paragraphs joined by a newline, each the
\* concatenation of its runs
text_frame_text(shape) ==
    Join([p \in 1..Len(shape.paragraphs) |-> Concat(shape.paragraphs[p])],
         <<"\n">>)

\* text.split("\n")
RECURSIVE SplitLines(_)
SplitLines(text) ==
    IF \E p \in 1..Len(text) : text[p] = "\n"
    THEN LET p == CHOOSE q \in 1..Len(text) :
                    text[q] = "\n" /\ \A r \in 1..(q - 1) : text[r] # "\n"
         IN  <<SubSeq(text, 1, p - 1)>> \o SplitLines(SubSeq(text, p + 1, Len(text)))
    ELSE <<text>>

\* shape.text = value: one paragraph per line, one run per non-empty line
set_shape_text(shape, value) ==
    LET lines == SplitLines(value)
    IN  [shape EXCEPT !.paragraphs =
            [p \in 1..Len(lines) |->
                IF lines[p] = <<>> THEN <<>> ELSE <<lines[p]>>]]

\* the loop with run.text never read back: every key is searched in, and
\* replaced in, the text the run had at the start
RECURSIVE stale_loop(_, _, _, _)
stale_loop(original, current, replacements, j) ==
    IF j > Len(replacements) THEN current
    ELSE IF StartsWith(replacements[j][1], ShapePrefix)
    THEN stale_loop(original, current, replacements, j + 1)
    ELSE IF Contains(original, replacements[j][1])
    THEN stale_loop(original,
                    Replace(original, replacements[j][1], replacements[j][2]),
                    replacements, j + 1)
    ELSE stale_loop(original, current, replacements, j + 1)

replace_in_run_stale(original, replacements, j) ==
    stale_loop(original, original, replacements, j)

\* the loop over replacements.items() on one run, from item j on
RECURSIVE replace_in_run(_, _, _)
replace_in_run(original, replacements, j) ==
    IF j > Len(replacements) THEN original
    ELSE LET old_text == replacements[j][1]
             new_text == replacements[j][2]
         IN  IF StartsWith(old_text, ShapePrefix)
             THEN replace_in_run(original, replacements, j + 1)
             ELSE IF Contains(original, old_text)
             THEN replace_in_run(Replace(original, old_text, new_text),
                                 replacements, j + 1)
             ELSE replace_in_run(original, replacements, j + 1)

\* the body of the loop over slide.shapes
apply_to_shape(shape, replacements) ==
    IF ~shape.has_text_frame THEN shape
    ELSE LET shape_name_key == ShapePrefix \o shape.name
             full_text == Strip(text_frame_text(shape))
         IN  IF DictHas(replacements, shape_name_key)
             THEN set_shape_text(shape, DictGet(replacements, shape_name_key))
             ELSE IF DictHas(replacements, full_text)
             THEN set_shape_text(shape, DictGet(replacements, full_text))
             ELSE [shape EXCEPT !.paragraphs =
                    [p \in 1..Len(shape.paragraphs) |->
                        [r \in 1..Len(shape.paragraphs[p]) |->
                            IF shape.paragraphs[p][r] # <<>>
                            THEN replace_in_run(shape.paragraphs[p][r],
                                                replacements, 1)
                            ELSE shape.paragraphs[p][r]]]]

\* _apply_replacements on the shapes of a slide
apply_replacements(shapes, replacements) ==
    [k \in 1..Len(shapes) |-> apply_to_shape(shapes[k], replacements)]


(***************************************************************************)
(* Template analysis: _analyze_slide, _analyze_template and                *)
(* get_slides_by_type.  A slide is its identity (the position it has in    *)
(* the template file, 0-based), its layout name and its shapes.            *)
(***************************************************************************)
\* the text_elements of _analyze_slide: shapes with a text frame whose
\* stripped text is not empty
RECURSIVE text_elements_of(_)
text_elements_of(shapes) ==
    IF shapes = <<>> THEN <<>>
    ELSE LET shape == Head(shapes)
             text == Strip(text_frame_text(shape))
         IN  IF shape.has_text_frame /\ text # <<>>
             THEN <<[shape_name |-> shape.name, text |-> text]>>
                    \o text_elements_of(Tail(shapes))
             ELSE text_elements_of(Tail(shapes))

\* _analyze_slide: the SlideInfo of a slide
analyze_slide(slide, idx, total) ==
    LET info == [index |-> idx,
                 layout_name |-> slide.layout_name,
                 text_elements |-> text_elements_of(slide.shapes)]
    IN  [index |-> info.index,
         layout_name |-> info.layout_name,
         text_elements |-> info.text_elements,
         type |-> infer_slide_type(info, idx, total)]

\* result['slide_types'][slide_type] as the loop of _analyze_template builds
\* it: the positions (0-based) of that type, in ascending order
RECURSIVE slides_of_type_from(_, _, _)
slides_of_type_from(slides, slide_type, k) ==
    IF k > Len(slides) THEN <<>>
    ELSE IF analyze_slide(slides[k], k - 1, Len(slides)).type = slide_type
    THEN <<k - 1>> \o slides_of_type_from(slides, slide_type, k + 1)
    ELSE slides_of_type_from(slides, slide_type, k + 1)

\* _analyze_template: the analysis record (the fields the create command
\* reads); slide_types has a key for every type that occurs
analyze_template(slides) ==
    LET types == {analyze_slide(slides[k], k - 1, Len(slides)).type :
                    k \in 1..Len(slides)}
    IN  [slide_count |-> Len(slides),
         slide_types |-> [t \in types |-> slides_of_type_from(slides, t, 1)]]

\* self.analysis['slide_types'].get(slide_type, [])
get_slides_by_type(an, slide_type) ==
    IF slide_type \in DOMAIN an.slide_types THEN an.slide_types[slide_type]
    ELSE <<>>

(***************************************************************************)
(* Plan resolution.  A plan entry is [template_slide, type, replacements]; *)
(* an optional field is <<>> when the key is absent (item.get gives None)  *)
(* and <<v>> when it is there.                                             *)
(***************************************************************************)
DefaultType == "content"

\* the resolver with type_slides[-1] in place of type_slides[0]: the last
\* slide of the category
main_resolve_last_match(an, item) ==
    IF item.template_slide # <<>> THEN item.template_slide[1]
    ELSE LET slide_type == IF item.type = <<>> THEN DefaultType ELSE item.type[1]
             type_slides == get_slides_by_type(an, slide_type)
         IN  IF type_slides # <<>> THEN type_slides[Len(type_slides)] ELSE 0

\* main, lines 368-372
main_resolve(an, item) ==
    IF item.template_slide # <<>> THEN item.template_slide[1]
    ELSE LET slide_type == IF item.type = <<>> THEN DefaultType ELSE item.type[1]
             type_slides == get_slides_by_type(an, slide_type)
         IN  IF type_slides # <<>> THEN type_slides[1] ELSE 0

\* create_from_plan, lines 155-159
plan_resolve(an, item) ==
    LET template_idx == item.template_slide
    IN  IF template_idx = <<>>
        THEN LET slide_type == IF item.type = <<>> THEN DefaultType
                               ELSE item.type[1]
                 type_slides == get_slides_by_type(an, slide_type)
             IN  IF Len(type_slides) > 0 THEN type_slides[1] ELSE 0
        ELSE template_idx[1]

(***************************************************************************)
(* Pruning and re-indexing.                                                *)
(***************************************************************************)
\* set(s) of a list
Range(s) == {s[k] : k \in 1..Len(s)}

\* sorted(S) of a set of integers
RECURSIVE SortedAsc(_)
SortedAsc(S) ==
    IF S = {} THEN <<>>
    ELSE LET m == CHOOSE a \in S : \A b \in S : a <= b
         IN  <<m>> \o SortedAsc(S \ {m})

\* sorted(S, reverse=True)
RECURSIVE SortedDesc(_)
SortedDesc(S) ==
    IF S = {} THEN <<>>
    ELSE LET m == CHOOSE a \in S : \A b \in S : a >= b
         IN  <<m>> \o SortedDesc(S \ {m})

\* sorted(l) of a list of integers, duplicates kept
sorted_list(l) == SortSeq(l, LAMBDA a, b : a < b)

\* the deletion loop walking the positions upwards
deletion_order_ascending(S) == SortedAsc(S)

\* the order the deletion loops walk the positions to delete in
deletion_order(S) == SortedDesc(S)

\* l[idx] is defined for a Python list of length n
IndexOk(n, idx) == idx < n /\ idx >= -n

\* the 1-based place of l[idx]
Place(n, idx) == IF idx < 0 THEN n + idx + 1 ELSE idx + 1

\* del prs.slides._sldIdLst[idx] (with the drop_rel before it)
delete_slide(slides, idx) ==
    LET k == Place(Len(slides), idx)
    IN  SubSeq(slides, 1, k - 1) \o SubSeq(slides, k + 1, Len(slides))

\* a dictionary with integer keys, as its set of <<key, value>> pairs
MapHas(m, key) == \E e \in m : e[1] = key
MapGet(m, key) == (CHOOSE e \in m : e[1] = key)[2]
MapPut(m, key, value) == {e \in m : e[1] # key} \cup {<<key, value>>}

\* create_simple, line 215
simple_to_delete(total, indices) == (0..(total - 1)) \ Range(indices)

\* create_from_plan, lines 168-172
plan_to_delete(total, keep) ==
    (0..(total - 1)) \ {keep[k].source_idx : k \in 1..Len(keep)}

\* create_simple, lines 224-228: walk sorted(slide_indices), a later
\* assignment to the same key overwrites the earlier one
RECURSIVE simple_map_from(_, _, _)
simple_map_from(sorted_indices, k, m) ==
    IF k > Len(sorted_indices) THEN m
    ELSE simple_map_from(sorted_indices, k + 1,
                         MapPut(m, sorted_indices[k], k - 1))

\* the walk without the sort
simple_old_to_new_unsorted(indices) == simple_map_from(indices, 1, {})

\* create_simple, lines 224-228
simple_old_to_new(indices) == simple_map_from(sorted_list(indices), 1, {})

\* create_from_plan, lines 181-186: walk range(total_slides), count the
\* positions that were not deleted
RECURSIVE plan_map_from(_, _, _, _, _)
plan_map_from(total, deleted, old_idx, new_idx, m) ==
    IF old_idx >= total THEN m
    ELSE IF old_idx \notin deleted
    THEN plan_map_from(total, deleted, old_idx + 1, new_idx + 1,
                       MapPut(m, old_idx, new_idx))
    ELSE plan_map_from(total, deleted, old_idx + 1, new_idx, m)

plan_old_to_new(total, deleted) == plan_map_from(total, deleted, 0, 0, {})


(***************************************************************************)
(* The replacement loops and the two entry points as functions of their    *)
(* inputs.  A run gives [ok, slides, saved]: ok is FALSE when an exception *)
(* left the function, saved is <<>> or <<the slides prs.save wrote>>.      *)
(***************************************************************************)
\* item.get('replacements', {})
replacements_of(item) ==
    IF item.replacements = <<>> THEN <<>> ELSE item.replacements[1]

\* one round of the loop of create_simple, lines 231-235, entry k (1-based)
simple_apply_entry(slides, indices, repl_list, m, k) ==
    LET old_idx == indices[k]
    IN  IF MapHas(m, old_idx) /\ k - 1 < Len(repl_list)
        THEN LET new_idx == MapGet(m, old_idx)
             IN  IF IndexOk(Len(slides), new_idx)
                 THEN LET at == Place(Len(slides), new_idx)
                      IN  [ok |-> TRUE,
                           slides |-> [slides EXCEPT ![at].shapes =
                               apply_replacements(slides[at].shapes, repl_list[k])],
                           hit |-> <<slides[at].id>>]
                 ELSE [ok |-> FALSE, slides |-> slides, hit |-> <<>>]
        ELSE [ok |-> TRUE, slides |-> slides, hit |-> <<>>]

\* one round of the loop of create_from_plan, lines 189-194
plan_apply_entry(slides, keep, m, k) ==
    LET source_idx == keep[k].source_idx
    IN  IF MapHas(m, source_idx)
        THEN LET new_idx == MapGet(m, source_idx)
             IN  IF IndexOk(Len(slides), new_idx)
                 THEN LET at == Place(Len(slides), new_idx)
                      IN  [ok |-> TRUE,
                           slides |-> [slides EXCEPT ![at].shapes =
                               apply_replacements(slides[at].shapes,
                                                  keep[k].replacements)],
                           hit |-> <<slides[at].id>>]
                 ELSE [ok |-> FALSE, slides |-> slides, hit |-> <<>>]
        ELSE [ok |-> TRUE, slides |-> slides, hit |-> <<>>]

\* the deletion loop, lines 218-221 and 175-178
RECURSIVE delete_all(_, _)
delete_all(slides, queue) ==
    IF queue = <<>> THEN [ok |-> TRUE, slides |-> slides]
    ELSE IF IndexOk(Len(slides), Head(queue))
    THEN delete_all(delete_slide(slides, Head(queue)), Tail(queue))
    ELSE [ok |-> FALSE, slides |-> slides]

RECURSIVE simple_apply_from(_, _, _, _, _)
simple_apply_from(slides, indices, repl_list, m, k) ==
    IF k > Len(indices) THEN [ok |-> TRUE, slides |-> slides]
    ELSE LET r == simple_apply_entry(slides, indices, repl_list, m, k)
         IN  IF r.ok THEN simple_apply_from(r.slides, indices, repl_list, m, k + 1)
             ELSE [ok |-> FALSE, slides |-> r.slides]

RECURSIVE plan_apply_from(_, _, _, _)
plan_apply_from(slides, keep, m, k) ==
    IF k > Len(keep) THEN [ok |-> TRUE, slides |-> slides]
    ELSE LET r == plan_apply_entry(slides, keep, m, k)
         IN  IF r.ok THEN plan_apply_from(r.slides, keep, m, k + 1)
             ELSE [ok |-> FALSE, slides |-> r.slides]

\* create_simple(slide_indices, replacements_list, output_path) on a template
create_simple(slides, indices, repl_list) ==
    LET deleted == simple_to_delete(Len(slides), indices)
        pruned == delete_all(slides, deletion_order(deleted))
        m == simple_old_to_new(indices)
        r == IF pruned.ok
             THEN simple_apply_from(pruned.slides, indices, repl_list, m, 1)
             ELSE pruned
    IN  [ok |-> r.ok, slides |-> r.slides, to_delete |-> deleted,
         old_to_new |-> m, saved |-> IF r.ok THEN <<r.slides>> ELSE <<>>]

\* main, the create command: resolve the plan, then create_simple
main_create(slides, plan) ==
    create_simple(slides,
                  [k \in 1..Len(plan) |->
                      main_resolve(analyze_template(slides), plan[k])],
                  [k \in 1..Len(plan) |-> replacements_of(plan[k])])

\* create_from_plan(content_plan, output_path) on a template
create_from_plan(slides, plan) ==
    LET keep == [k \in 1..Len(plan) |->
                    [source_idx |-> plan_resolve(analyze_template(slides), plan[k]),
                     replacements |-> replacements_of(plan[k])]]
        deleted == plan_to_delete(Len(slides), keep)
        pruned == delete_all(slides, deletion_order(deleted))
        m == plan_old_to_new(Len(slides), deleted)
        r == IF pruned.ok THEN plan_apply_from(pruned.slides, keep, m, 1)
             ELSE pruned
    IN  [ok |-> r.ok, slides |-> r.slides, to_delete |-> deleted,
         old_to_new |-> m, saved |-> IF r.ok THEN <<r.slides>> ELSE <<>>]


(***************************************************************************)
(* Inputs.                                                                 *)
(***************************************************************************)
\* sequences over S of length at most n
SeqsUpTo(S, n) == UNION {[1..m -> S] : m \in 0..n}

TextShape(name, runs) ==
    [name |-> name, has_text_frame |-> TRUE, paragraphs |-> <<runs>>]

TitleName == <<"T">>
BodyName == <<"B">>

\* the title text of the template slide at position q (0-based)
TitleText(q) ==
    CASE q = 0 -> <<"T", "h", "a", "n", "k", " ", "y", "o", "u">>
      [] q = 1 -> <<"h", "e", "l", "l", "o">>
      [] q = 2 -> <<"C", "o", "n", "t", "e", "n", "t", "s">>
      [] q = 3 -> <<"U+3000", "0", "1">>
      [] OTHER -> <<"1", "a">>

\* the template slide at position q: positions 0..3 are classified cover,
\* content, toc and divider; later ones have a title layout
TemplateSlide(q) ==
    [id |-> q,
     layout_name |-> IF q <= 3 THEN <<"B", "l", "a", "n", "k">> ELSE <<"T", "i", "t", "l", "e", " ", "S", "l", "i", "d", "e">>,
     shapes |-> << TextShape(TitleName, <<TitleText(q)>>),
                   TextShape(BodyName, << <<"a","b","U+3000">> >>) >>]

AgendaTitle == <<"A", "g", "e", "n", "d", "a">>

\* the deck of MaxSlides slides whose slide at position 1 is a second
\* table-of-contents slide, so that "toc" has two slides and "content" none
AgendaDeck ==
    [k \in 1..MaxSlides |->
        IF k = 2
        THEN [TemplateSlide(1) EXCEPT
                !.shapes[1] = TextShape(TitleName, <<AgendaTitle>>)]
        ELSE TemplateSlide(k - 1)]

\* the templates: the decks of 0..MaxSlides slides, and the agenda deck
Templates ==
    {[k \in 1..n |-> TemplateSlide(k - 1)] : n \in 0..MaxSlides}
    \cup {AgendaDeck}

DigitOf(k) == <<"0","1","2","3","4","5","6","7","8","9">>[k + 1]

\* the replacements of plan entry k: {"shape:T": "E<k>", "ab": "c"}
EntryReplacements(k) ==
    << <<ShapePrefix \o TitleName, <<"E", DigitOf(k)>> >>,
       << <<"a","b">>, <<"c">> >> >>

\* plan entries without their dictionary: an explicit template_slide in
\* -1..MaxSlides, one with a type beside it, and entries resolved by type
\* ("toc", or absent for the default), with or without replacements
EntryShapes ==
    {[template_slide |-> <<p>>, type |-> <<>>, has_replacements |-> TRUE] :
        p \in (-1)..MaxSlides}
    \cup
    {[template_slide |-> <<2>>, type |-> <<"toc">>, has_replacements |-> TRUE],
     [template_slide |-> <<>>, type |-> <<"toc">>, has_replacements |-> TRUE],
     [template_slide |-> <<>>, type |-> <<>>, has_replacements |-> TRUE],
     [template_slide |-> <<>>, type |-> <<>>, has_replacements |-> FALSE]}

Plans ==
    {[k \in 1..Len(sk) |->
        [template_slide |-> sk[k].template_slide,
         type |-> sk[k].type,
         replacements |-> IF sk[k].has_replacements
                          THEN <<EntryReplacements(k)>> ELSE <<>>]] :
     sk \in SeqsUpTo(EntryShapes, MaxPlan)}

\* inputs of _infer_slide_type
ClassifyLayouts == {<<"T", "i", "t", "l", "e", " ", "S", "l", "i", "d", "e">>, <<"S", "e", "c", "t", "i", "o", "n", " ", "H", "e", "a", "d", "e", "r">>, <<"C", "o", "v", "e", "r", " ", "S", "e", "c", "t", "i", "o", "n">>, <<"B", "l", "a", "n", "k">>,
                    <<"U+7AE0","U+8282">>}
ClassifyTexts == {<<"1", "a">>, <<"C", "o", "n", "t", "e", "n", "t", "s">>,
                  <<"T", "H", "A", "N", "U+212A", " ", "Y", "O", "U">>,
                  <<"0", "1">>, <<"2","U+FF10","2","4","U+FF10","1">>}

\* inputs of _apply_replacements
SubstShapes ==
    { TextShape(TitleName, << <<"a","b">> >>),
      TextShape(TitleName, << <<"U+3000","a","b"," ">> >>),
      TextShape(BodyName, << ShapePrefix \o TitleName >>),
      TextShape(BodyName, << <<"a">>, <<"b">> >>),
      TextShape(BodyName, << <<>>, <<"b","T">> >>),
      [name |-> BodyName, has_text_frame |-> TRUE,
       paragraphs |-> << << <<"a">> >>, << <<"a","b">> >> >>],
      [name |-> BodyName, has_text_frame |-> FALSE, paragraphs |-> <<>>] }
SubstKeys == { ShapePrefix \o TitleName, <<"a">>, <<"b">>, <<"a","b">>, <<>> }
SubstValues == { <<"b">>, <<"c">> }
SubstDicts ==
    {d \in SeqsUpTo(SubstKeys \X SubstValues, MaxKeys) :
        \A j, k \in 1..Len(d) : j # k => d[j][1] # d[k][1]}


(***************************************************************************)
(* The pipeline as a state machine: one run of the create command (main,   *)
(* then create_simple) or of create_from_plan, a step per statement group  *)
(* and per loop round.                                                     *)
(***************************************************************************)
IdleSubst == [pc |-> "idle", shapes |-> <<>>, replacements |-> <<>>,
              result |-> <<>>]
IdleClassify == [pc |-> "idle", info |-> <<>>, idx |-> 0, total |-> 0]

Init ==
    /\ path \in {"create", "plan"}
    /\ pc = "start"
    /\ template \in Templates
    /\ analysis = analyze_template(template)
    /\ content_plan \in Plans
    /\ slide_indices = <<>>
    /\ replacements_list = <<>>
    /\ slides_to_keep = <<>>
    /\ prs = <<>>
    /\ to_delete = {}
    /\ del_queue = <<>>
    /\ old_to_new = {}
    /\ cursor = 0
    /\ applied = <<>>
    /\ output = <<>>
    /\ saves = 0
    /\ subst = IdleSubst
    /\ classify = IdleClassify

\* main, lines 361-375: analyse the template, resolve every plan entry
Main_Resolve ==
    /\ path = "create" /\ pc = "start"
    /\ slide_indices' = [k \in 1..Len(content_plan) |->
                            main_resolve(analysis, content_plan[k])]
    /\ replacements_list' = [k \in 1..Len(content_plan) |->
                                replacements_of(content_plan[k])]
    /\ pc' = "cs_open"
    /\ UNCHANGED <<path, template, analysis, content_plan, slides_to_keep, prs,
                   to_delete, del_queue, old_to_new, cursor, applied, output,
                   saves, subst, classify>>

\* create_simple, lines 211-215: open the template, compute to_delete
CreateSimple_Open ==
    /\ pc = "cs_open"
    /\ prs' = template
    /\ to_delete' = simple_to_delete(Len(template), slide_indices)
    /\ del_queue' = deletion_order(simple_to_delete(Len(template), slide_indices))
    /\ pc' = "cs_delete"
    /\ UNCHANGED <<path, template, analysis, content_plan, slide_indices,
                   replacements_list, slides_to_keep, old_to_new, cursor,
                   applied, output, saves, subst, classify>>

\* create_simple, lines 218-221: one round of the deletion loop
CreateSimple_Delete ==
    /\ pc = "cs_delete" /\ del_queue # <<>>
    /\ IF IndexOk(Len(prs), Head(del_queue))
       THEN /\ prs' = delete_slide(prs, Head(del_queue))
            /\ del_queue' = Tail(del_queue)
            /\ pc' = pc
       ELSE /\ pc' = "error"
            /\ UNCHANGED <<prs, del_queue>>
    /\ UNCHANGED <<path, template, analysis, content_plan, slide_indices,
                   replacements_list, slides_to_keep, to_delete, old_to_new,
                   cursor, applied, output, saves, subst, classify>>

\* create_simple, lines 224-228: build old_to_new
CreateSimple_Map ==
    /\ pc = "cs_delete" /\ del_queue = <<>>
    /\ old_to_new' = simple_old_to_new(slide_indices)
    /\ cursor' = 1
    /\ pc' = "cs_apply"
    /\ UNCHANGED <<path, template, analysis, content_plan, slide_indices,
                   replacements_list, slides_to_keep, prs, to_delete,
                   del_queue, applied, output, saves, subst, classify>>

\* create_simple, lines 231-235: one round of the replacement loop
CreateSimple_Apply ==
    /\ pc = "cs_apply" /\ cursor <= Len(slide_indices)
    /\ LET r == simple_apply_entry(prs, slide_indices, replacements_list,
                                   old_to_new, cursor)
       IN  IF r.ok
           THEN /\ prs' = r.slides
                /\ applied' = IF r.hit = <<>> THEN applied
                              ELSE Append(applied, [entry |-> cursor,
                                                    slide |-> r.hit[1]])
                /\ cursor' = cursor + 1
                /\ pc' = pc
           ELSE /\ pc' = "error"
                /\ UNCHANGED <<prs, applied, cursor>>
    /\ UNCHANGED <<path, template, analysis, content_plan, slide_indices,
                   replacements_list, slides_to_keep, to_delete, del_queue,
                   old_to_new, output, saves, subst, classify>>

\* a save placed before the replacement loop
CreateSimple_Save_before_loop ==
    /\ pc = "cs_apply"
    /\ output' = <<prs>>
    /\ saves' = saves + 1
    /\ pc' = "done"
    /\ UNCHANGED <<path, template, analysis, content_plan, slide_indices,
                   replacements_list, slides_to_keep, prs, to_delete,
                   del_queue, old_to_new, cursor, applied, subst, classify>>

\* create_simple, lines 237-239: prs.save(output_path)
CreateSimple_Save ==
    /\ pc = "cs_apply" /\ cursor > Len(slide_indices)
    /\ output' = <<prs>>
    /\ saves' = saves + 1
    /\ pc' = "done"
    /\ UNCHANGED <<path, template, analysis, content_plan, slide_indices,
                   replacements_list, slides_to_keep, prs, to_delete,
                   del_queue, old_to_new, cursor, applied, subst, classify>>

\* create_from_plan, lines 150-164: open the template, resolve every entry
CreateFromPlan_Resolve ==
    /\ path = "plan" /\ pc = "start"
    /\ prs' = template
    /\ slides_to_keep' = [k \in 1..Len(content_plan) |->
            [source_idx |-> plan_resolve(analysis, content_plan[k]),
             replacements |-> replacements_of(content_plan[k])]]
    /\ pc' = "cfp_collect"
    /\ UNCHANGED <<path, template, analysis, content_plan, slide_indices,
                   replacements_list, to_delete, del_queue, old_to_new,
                   cursor, applied, output, saves, subst, classify>>

\* create_from_plan, lines 167-172: compute indices_to_delete
CreateFromPlan_ToDelete ==
    /\ pc = "cfp_collect"
    /\ to_delete' = plan_to_delete(Len(prs), slides_to_keep)
    /\ del_queue' = deletion_order(plan_to_delete(Len(prs), slides_to_keep))
    /\ pc' = "cfp_delete"
    /\ UNCHANGED <<path, template, analysis, content_plan, slide_indices,
                   replacements_list, slides_to_keep, prs, old_to_new, cursor,
                   applied, output, saves, subst, classify>>

\* create_from_plan, lines 175-178: one round of the deletion loop
CreateFromPlan_Delete ==
    /\ pc = "cfp_delete" /\ del_queue # <<>>
    /\ IF IndexOk(Len(prs), Head(del_queue))
       THEN /\ prs' = delete_slide(prs, Head(del_queue))
            /\ del_queue' = Tail(del_queue)
            /\ pc' = pc
       ELSE /\ pc' = "error"
            /\ UNCHANGED <<prs, del_queue>>
    /\ UNCHANGED <<path, template, analysis, content_plan, slide_indices,
                   replacements_list, slides_to_keep, to_delete, old_to_new,
                   cursor, applied, output, saves, subst, classify>>

\* create_from_plan, lines 181-186: build old_to_new
CreateFromPlan_Map ==
    /\ pc = "cfp_delete" /\ del_queue = <<>>
    /\ old_to_new' = plan_old_to_new(Len(template), to_delete)
    /\ cursor' = 1
    /\ pc' = "cfp_apply"
    /\ UNCHANGED <<path, template, analysis, content_plan, slide_indices,
                   replacements_list, slides_to_keep, prs, to_delete,
                   del_queue, applied, output, saves, subst, classify>>

\* create_from_plan, lines 189-194: one round of the replacement loop
CreateFromPlan_Apply ==
    /\ pc = "cfp_apply" /\ cursor <= Len(slides_to_keep)
    /\ LET r == plan_apply_entry(prs, slides_to_keep, old_to_new, cursor)
       IN  IF r.ok
           THEN /\ prs' = r.slides
                /\ applied' = IF r.hit = <<>> THEN applied
                              ELSE Append(applied, [entry |-> cursor,
                                                    slide |-> r.hit[1]])
                /\ cursor' = cursor + 1
                /\ pc' = pc
           ELSE /\ pc' = "error"
                /\ UNCHANGED <<prs, applied, cursor>>
    /\ UNCHANGED <<path, template, analysis, content_plan, slide_indices,
                   replacements_list, slides_to_keep, to_delete, del_queue,
                   old_to_new, output, saves, subst, classify>>

\* create_from_plan, lines 200-202: prs.save(output_path)
CreateFromPlan_Save ==
    /\ pc = "cfp_apply" /\ cursor > Len(slides_to_keep)
    /\ output' = <<prs>>
    /\ saves' = saves + 1
    /\ pc' = "done"
    /\ UNCHANGED <<path, template, analysis, content_plan, slide_indices,
                   replacements_list, slides_to_keep, prs, to_delete,
                   del_queue, old_to_new, cursor, applied, subst, classify>>

Next ==
    \/ Main_Resolve
    \/ CreateSimple_Open
    \/ CreateSimple_Delete
    \/ CreateSimple_Map
    \/ CreateSimple_Apply
    \/ CreateSimple_Save
    \/ CreateFromPlan_Resolve
    \/ CreateFromPlan_ToDelete
    \/ CreateFromPlan_Delete
    \/ CreateFromPlan_Map
    \/ CreateFromPlan_Apply
    \/ CreateFromPlan_Save

Spec == Init /\ [][Next]_vars

(***************************************************************************)
(* _apply_replacements on its own: a slide and a dictionary, one call.     *)
(***************************************************************************)
IdlePipeline ==
    /\ path = "none" /\ pc = "idle" /\ template = <<>> /\ content_plan = <<>>
    /\ analysis = analyze_template(<<>>)
    /\ slide_indices = <<>> /\ replacements_list = <<>>
    /\ slides_to_keep = <<>> /\ prs = <<>> /\ to_delete = {}
    /\ del_queue = <<>> /\ old_to_new = {} /\ cursor = 0 /\ applied = <<>>
    /\ output = <<>> /\ saves = 0

InitSubst ==
    /\ IdlePipeline
    /\ classify = IdleClassify
    /\ \E shapes \in SeqsUpTo(SubstShapes, MaxShapes), d \in SubstDicts :
          subst = [pc |-> "call", shapes |-> shapes, replacements |-> d,
                   result |-> shapes]

\* _apply_replacements(slide, replacements), lines 241-268
ApplyReplacements ==
    /\ subst.pc = "call"
    /\ subst' = [subst EXCEPT
                    !.pc = "done",
                    !.result = apply_replacements(subst.shapes,
                                                  subst.replacements)]
    /\ UNCHANGED <<pipeline_vars, classify>>

NextSubst == ApplyReplacements

SpecSubst == InitSubst /\ [][NextSubst]_vars

(***************************************************************************)
(* _infer_slide_type on its own: a SlideInfo and a position, one call.     *)
(***************************************************************************)
InitClassify ==
    /\ IdlePipeline
    /\ subst = IdleSubst
    /\ \E layout \in ClassifyLayouts, texts \in SeqsUpTo(ClassifyTexts, MaxTexts),
          idx \in 0..MaxIdx :
          classify = [pc |-> "call",
                      info |-> [index |-> idx,
                                type |-> "content",
                                layout_name |-> layout,
                                text_elements |->
                                    [k \in 1..Len(texts) |->
                                        [shape_name |-> TitleName,
                                         text |-> texts[k]]]],
                      idx |-> idx,
                      total |-> MaxIdx + 1]

\* info.type = self._infer_slide_type(info, idx, total), line 100
InferSlideType ==
    /\ classify.pc = "call"
    /\ classify' = [classify EXCEPT
                      !.pc = "done",
                      !.info.type = infer_slide_type(classify.info,
                                                     classify.idx,
                                                     classify.total)]
    /\ UNCHANGED <<pipeline_vars, subst>>

NextClassify == InferSlideType

SpecClassify == InitClassify /\ [][NextClassify]_vars


(***************************************************************************)
(* Properties of the pipeline.                                             *)
(***************************************************************************)
\* the positions the plan resolved to, in plan order, on either path
Resolved ==
    IF path = "create" THEN slide_indices
    ELSE [k \in 1..Len(slides_to_keep) |-> slides_to_keep[k].source_idx]

IsResolved == pc \notin {"start", "idle"}

\* K, the keep-set
KeepSet == Range(Resolved)

TemplateRange == 0..(Len(template) - 1)

AllInRange == \A k \in 1..Len(Resolved) : Resolved[k] \in TemplateRange

\* the deletion loop has run to its end
DeletionDone ==
    \/ pc \in {"cs_apply", "cfp_apply", "done"}
    \/ pc \in {"cs_delete", "cfp_delete", "error"} /\ to_delete # {} /\ del_queue = <<>>
    \/ pc \in {"cs_delete", "cfp_delete"} /\ to_delete = {}

\* the replacement loop has started
MapBuilt == pc \in {"cs_apply", "cfp_apply", "done"} \/ (pc = "error" /\ cursor > 0)

SurvivorIds == [k \in 1..Len(prs) |-> prs[k].id]

Ascending(s) == \A j, k \in 1..Len(s) : j < k => s[j] < s[k]

\* C1 as stated: after the deletion loop the document has exactly |K| slides,
\* in ascending original order, for any list of resolved keep positions.
C1_PruningAsStated ==
    DeletionDone =>
        /\ Len(prs) = Cardinality(KeepSet)
        /\ Ascending(SurvivorIds)

\* C1 amended: after the deletion loop the document has exactly
\* |K \cap {0..n-1}| slides (|K| when every position is in range): the
\* survivors are the in-range positions of K, in ascending original order,
\* whatever the order of the plan.
C1_PruningInRange ==
    DeletionDone =>
        /\ Len(prs) = Cardinality(KeepSet \cap TemplateRange)
        /\ Range(SurvivorIds) = KeepSet \cap TemplateRange
        /\ Ascending(SurvivorIds)
        /\ AllInRange => Len(prs) = Cardinality(KeepSet)

\* C1 witness: the loop is over for a plan that lists two in-range positions
\* in descending order and made the loop delete something
C1_Witness ==
    /\ DeletionDone
    /\ AllInRange
    /\ Len(prs) < Len(template)
    /\ \E j, k \in 1..Len(Resolved) : j < k /\ Resolved[j] > Resolved[k]

\* C2 as stated, for plans whose positions are all in range: every entry's
\* dictionary is applied to the surviving slide that was at the entry's
\* template position, the run does not fail, and old_to_new sends p to the
\* number of kept positions smaller than p.
C2_ReplacementsReachTheirSlide ==
    (IsResolved /\ AllInRange) =>
        /\ pc # "error"
        /\ \A n \in 1..Len(applied) :
              applied[n].slide = Resolved[applied[n].entry]
        /\ MapBuilt =>
              \A e \in old_to_new :
                  e[1] \in KeepSet =>
                      e[2] = Cardinality({q \in KeepSet : q < e[1]})
        /\ pc = "done" =>
              \A k \in 1..Len(Resolved) :
                  \E n \in 1..Len(applied) : applied[n].entry = k

\* C3 as stated: a plan with a position outside the template never completes
\* normally, never writes output, and no dictionary reaches a slide other
\* than the one its entry names.
C3_OutOfRangeFailsLoudly ==
    (IsResolved /\ ~AllInRange) =>
        /\ pc # "done"
        /\ saves = 0
        /\ output = <<>>
        /\ \A n \in 1..Len(applied) :
              applied[n].slide = Resolved[applied[n].entry]

\* the inferred category of every slide of every template
InferredTypes ==
    [t \in Templates |->
        [q \in 0..(Len(t) - 1) |-> analyze_slide(t[q + 1], q, Len(t)).type]]

\* the category of the template slide at position q
TypeAt(q) == InferredTypes[template][q]

\* the position C5 gives a plan entry
ClaimedPosition(item) ==
    IF item.template_slide # <<>> THEN item.template_slide[1]
    ELSE LET wanted == IF item.type = <<>> THEN "content" ELSE item.type[1]
             having == {q \in TemplateRange : TypeAt(q) = wanted}
         IN  IF having = {} THEN 0
             ELSE CHOOSE q \in having : \A r \in having : q <= r

\* C5: every plan entry resolves to one position, in plan order:
\* template_slide when present, whatever the type; else the lowest position
\* of the wanted category; else 0, without an error.  The resolver of main
\* and the resolver of create_from_plan give the same positions.
C5_PlanResolution ==
    pc \in {"cs_open", "cfp_collect"} =>
        /\ Len(Resolved) = Len(content_plan)
        /\ \A k \in 1..Len(content_plan) :
              /\ Resolved[k] = ClaimedPosition(content_plan[k])
              /\ main_resolve(analysis, content_plan[k])
                    = plan_resolve(analysis, content_plan[k])
        /\ path = "create" => Len(replacements_list) = Len(content_plan)

\* C5 witness: main resolved, on a template with two slides of one category
\* and none of another, a plan with an entry that has both keys and whose
\* type alone would give another position, an entry whose category has two
\* slides (the lower one is taken), and an entry whose category no slide has
\* (position 0)
C5_Witness ==
    /\ path = "create" /\ pc = "cs_open"
    /\ \E k \in 1..Len(content_plan) :
          /\ content_plan[k].template_slide # <<>>
          /\ content_plan[k].type # <<>>
          /\ slide_indices[k] = content_plan[k].template_slide[1]
          /\ get_slides_by_type(analysis, content_plan[k].type[1]) # <<>>
          /\ get_slides_by_type(analysis, content_plan[k].type[1])[1]
                # slide_indices[k]
    /\ \E k \in 1..Len(content_plan) :
          /\ content_plan[k].template_slide = <<>>
          /\ content_plan[k].type # <<>>
          /\ LET type_slides == get_slides_by_type(analysis,
                                                   content_plan[k].type[1])
             IN  /\ Len(type_slides) >= 2
                 /\ slide_indices[k] = type_slides[1]
                 /\ slide_indices[k] < type_slides[Len(type_slides)]
                 /\ slide_indices[k] > 0
    /\ \E k \in 1..Len(content_plan) :
          /\ content_plan[k].template_slide = <<>>
          /\ content_plan[k].type = <<>>
          /\ get_slides_by_type(analysis, DefaultType) = <<>>
          /\ Len(template) > 1
          /\ slide_indices[k] = 0

\* C6: the save happens at most once, after every deletion and after the
\* replacements of every kept and mapped entry; a run that failed saved
\* nothing.
C6_SaveLastAndOnlyOnSuccess ==
    /\ saves <= 1
    /\ (saves = 0) <=> (output = <<>>)
    /\ saves = 1 =>
          /\ pc = "done"
          /\ del_queue = <<>>
          /\ Range(SurvivorIds) \cap to_delete = {}
          /\ Len(prs) = Len(template) - Cardinality(to_delete)
          /\ \A k \in 1..Len(Resolved) :
                MapHas(old_to_new, Resolved[k]) =>
                    \E n \in 1..Len(applied) : applied[n].entry = k
          /\ output = <<prs>>
    /\ pc = "error" => saves = 0 /\ output = <<>>

\* C6 witness: a run saved after deleting slides and applying two entries
C6_Witness ==
    /\ pc = "done" /\ saves = 1
    /\ to_delete # {}
    /\ Len(applied) >= 2
    /\ output = <<prs>>

\* positions pairwise distinct and inside the template
WellFormed ==
    /\ AllInRange
    /\ \A j, k \in 1..Len(Resolved) : j # k => Resolved[j] # Resolved[k]

\* the run of the other entry point on the same template and plan
OtherRun ==
    IF path = "create" THEN create_from_plan(template, content_plan)
    ELSE main_create(template, content_plan)

\* C10: on a plan whose positions are pairwise distinct and in range, the
\* create command and create_from_plan delete the same slides, build the
\* same old_to_new, and save the same slides with the same texts.
C10_PathsAgree ==
    (pc \in {"done", "error"} /\ WellFormed) =>
        /\ pc = "done"
        /\ LET other == OtherRun
           IN  /\ other.ok
               /\ to_delete = other.to_delete
               /\ old_to_new = other.old_to_new
               /\ output = other.saved
               /\ prs = other.slides

\* C10 witness: the create command finished a well-formed plan that lists
\* its positions out of order and deleted a slide
C10_Witness ==
    /\ path = "create" /\ pc = "done"
    /\ WellFormed
    /\ to_delete # {}
    /\ \E j, k \in 1..Len(Resolved) : j < k /\ Resolved[j] > Resolved[k]

\* the steps of a run agree with the entry points as functions
StepsMatchRuns ==
    LET run == IF path = "create" THEN main_create(template, content_plan)
               ELSE create_from_plan(template, content_plan)
    IN  /\ pc = "done" => run.ok /\ output = run.saved
        /\ pc = "error" => ~run.ok /\ prs = run.slides


(***************************************************************************)
(* Properties of _apply_replacements.                                      *)
(***************************************************************************)
SubstDone == subst.pc = "done"

NamedKey(shape) == ShapePrefix \o shape.name

IsPlainKey(key) == ~StartsWith(key, ShapePrefix)

\* C4 as stated: with a dictionary whose only key is shape:N, the text shapes
\* named N get the value as their whole text and every other shape keeps its
\* text, whatever that text is.
C4_NamedKeyTouchesOnlyItsShape ==
    (/\ SubstDone
     /\ Len(subst.replacements) = 1
     /\ StartsWith(subst.replacements[1][1], ShapePrefix)) =>
        \A k \in 1..Len(subst.shapes) :
            IF /\ subst.shapes[k].has_text_frame
               /\ NamedKey(subst.shapes[k]) = subst.replacements[1][1]
            THEN text_frame_text(subst.result[k]) = subst.replacements[1][2]
            ELSE subst.result[k] = subst.shapes[k]

\* the three rules as C7 states them, first match wins: 1 for the named key
\* of the shape, 2 for a plain key equal to the trimmed whole text, else 3
ClaimedRule(shape, d) ==
    IF DictHas(d, NamedKey(shape)) THEN 1
    ELSE IF \E j \in 1..Len(d) :
                IsPlainKey(d[j][1]) /\ d[j][1] = Strip(text_frame_text(shape))
    THEN 2
    ELSE 3

\* no key of d matches the shape: not its named key, not its whole text, and
\* no plain key occurs in one of its runs
NothingMatches(shape, d) ==
    /\ ~DictHas(d, NamedKey(shape))
    /\ \A j \in 1..Len(d) :
          IsPlainKey(d[j][1]) =>
              /\ d[j][1] # Strip(text_frame_text(shape))
              /\ \A p \in 1..Len(shape.paragraphs) :
                    \A r \in 1..Len(shape.paragraphs[p]) :
                        ~Contains(shape.paragraphs[p][r], d[j][1])

\* C7 as stated: every text shape is handled by exactly one of the three
\* rules, in that precedence, rule 2 looking at plain keys only; a shape
\* without a text frame never changes, and a dictionary none of whose keys
\* match changes nothing.
C7_RulePrecedence ==
    SubstDone =>
        \A k \in 1..Len(subst.shapes) :
            LET shape == subst.shapes[k]
                after == subst.result[k]
                d == subst.replacements
            IN  IF ~shape.has_text_frame THEN after = shape
                ELSE /\ ClaimedRule(shape, d) = 1 =>
                            text_frame_text(after) = DictGet(d, NamedKey(shape))
                     /\ ClaimedRule(shape, d) = 2 =>
                            text_frame_text(after)
                                = DictGet(d, Strip(text_frame_text(shape)))
                     /\ ClaimedRule(shape, d) = 3 =>
                            after = [shape EXCEPT !.paragraphs =
                                [p \in 1..Len(shape.paragraphs) |->
                                    [r \in 1..Len(shape.paragraphs[p]) |->
                                        IF shape.paragraphs[p][r] = <<>> THEN <<>>
                                        ELSE replace_in_run(shape.paragraphs[p][r],
                                                            d, 1)]]]
                     /\ NothingMatches(shape, d) => after = shape

\* the shape falls through to the run-level rule
ReachesRunLevel(shape, d) ==
    /\ shape.has_text_frame
    /\ ~DictHas(d, NamedKey(shape))
    /\ ~DictHas(d, Strip(text_frame_text(shape)))

\* the left fold of C8: over the plain keys in iteration order, replace every
\* occurrence of the key in the current text
RECURSIVE LeftFold(_, _, _)
LeftFold(text, d, j) ==
    IF j > Len(d) THEN text
    ELSE IF IsPlainKey(d[j][1])
    THEN LeftFold(Replace(text, d[j][1], d[j][2]), d, j + 1)
    ELSE LeftFold(text, d, j + 1)

\* C8 as stated: every run of a shape that reaches the run-level rule ends
\* as the left fold of its text.
C8_EveryRunIsTheFold ==
    SubstDone =>
        \A k \in 1..Len(subst.shapes) :
            ReachesRunLevel(subst.shapes[k], subst.replacements) =>
                \A p \in 1..Len(subst.shapes[k].paragraphs) :
                    \A r \in 1..Len(subst.shapes[k].paragraphs[p]) :
                        subst.result[k].paragraphs[p][r]
                            = LeftFold(subst.shapes[k].paragraphs[p][r],
                                       subst.replacements, 1)

\* C8 amended: every run with a non-empty text, of a shape that reaches the
\* run-level rule, ends as the left fold of its text over the plain keys in
\* iteration order; a run whose text is empty is skipped and stays empty.
C8_NonEmptyRunIsTheFold ==
    SubstDone =>
        \A k \in 1..Len(subst.shapes) :
            ReachesRunLevel(subst.shapes[k], subst.replacements) =>
                /\ Len(subst.result[k].paragraphs)
                      = Len(subst.shapes[k].paragraphs)
                /\ \A p \in 1..Len(subst.shapes[k].paragraphs) :
                      /\ Len(subst.result[k].paragraphs[p])
                            = Len(subst.shapes[k].paragraphs[p])
                      /\ \A r \in 1..Len(subst.shapes[k].paragraphs[p]) :
                            subst.result[k].paragraphs[p][r]
                              = IF subst.shapes[k].paragraphs[p][r] = <<>>
                                THEN <<>>
                                ELSE LeftFold(subst.shapes[k].paragraphs[p][r],
                                              subst.replacements, 1)

\* d[::-1]
Reverse(d) == [j \in 1..Len(d) |-> d[Len(d) + 1 - j]]

\* C8 witness: a shape reached the run-level rule with two plain keys, the
\* second matched text the first one wrote, and the same entries in the other
\* order give another text
C8_Witness ==
    /\ SubstDone
    /\ Len(subst.replacements) = 2
    /\ \E k \in 1..Len(subst.shapes) :
          /\ ReachesRunLevel(subst.shapes[k], subst.replacements)
          /\ ReachesRunLevel(subst.shapes[k], Reverse(subst.replacements))
          /\ \E p \in 1..Len(subst.shapes[k].paragraphs) :
                \E r \in 1..Len(subst.shapes[k].paragraphs[p]) :
                    /\ ~Contains(subst.shapes[k].paragraphs[p][r],
                                 subst.replacements[2][1])
                    /\ Contains(Replace(subst.shapes[k].paragraphs[p][r],
                                        subst.replacements[1][1],
                                        subst.replacements[1][2]),
                                subst.replacements[2][1])
          /\ apply_to_shape(subst.shapes[k], Reverse(subst.replacements))
                # subst.result[k]

(***************************************************************************)
(* Properties of _infer_slide_type.                                        *)
(***************************************************************************)
Categories == {"cover", "divider", "toc", "ending", "content"}

\* some keyword of the set occurs in the text, case ignored
HasKeyword(text, keys) == \E key \in keys : Contains(Lower(text), key)

\* a token made of digits only, ASCII or full-width, of any length
IsNumericToken(text) ==
    text # <<>> /\ \A k \in 1..Len(text) : text[k] \in DigitChars

\* the category C9 gives
ClaimedType(info, idx) ==
    LET texts == {info.text_elements[k].text : k \in 1..Len(info.text_elements)}
    IN  IF idx = 0 THEN "cover"
        ELSE IF HasKeyword(info.layout_name, Range(CoverLayoutKeys)) THEN "cover"
        ELSE IF HasKeyword(info.layout_name, Range(SectionLayoutKeys)) THEN "divider"
        ELSE IF \E t \in texts : HasKeyword(t, Range(TocTextKeys)) THEN "toc"
        ELSE IF \E t \in texts : HasKeyword(t, Range(EndingTextKeys)) THEN "ending"
        ELSE IF /\ Len(info.text_elements) <= 4
                /\ \E t \in texts : IsNumericToken(t)
             THEN "divider"
        ELSE "content"

\* C9: position 0 is cover; else the layout name decides, cover keywords
\* before section keywords, whatever the text says; else the text decides,
\* toc before ending; else divider exactly when there are at most 4 text
\* elements and one is a numeric token; else content.  The result is one of
\* the five categories.
C9_ClassifierPrecedence ==
    classify.pc = "done" =>
        /\ classify.info.type = ClaimedType(classify.info, classify.idx)
        /\ classify.info.type \in Categories
        /\ classify.idx = 0 => classify.info.type = "cover"

\* C9 witness: a slide past position 0 whose layout name has a section
\* keyword and whose text has a table-of-contents keyword was classified
\* divider
C9_Witness ==
    /\ classify.pc = "done"
    /\ classify.idx > 0
    /\ ~HasKeyword(classify.info.layout_name, Range(CoverLayoutKeys))
    /\ HasKeyword(classify.info.layout_name, Range(SectionLayoutKeys))
    /\ \E k \in 1..Len(classify.info.text_elements) :
          HasKeyword(classify.info.text_elements[k].text, Range(TocTextKeys))
    /\ classify.info.type = "divider"

=============================================================================
